---- MODULE Spec2Model ----
(***************************************************************************)
(* The player finite-state controller of raylib_animated_fsm/src/player.c. *)
(*                                                                         *)
(* Numbers.  Stamina and mana are C floats that only ever move by 0.05,    *)
(* 0.5 and 1.0 or are set to 0 or 100; they are held here as integers in   *)
(* units of 0.05 (100.0 is 2000, 1.0 is 20, 0.5 is 10, 0.05 is 1).         *)
(* Positions are held in half pixels, so that GetScreenWidth() / 2.0f is   *)
(* an integer for every screen width (32 px is 64, speed 2 px is 4).       *)
(*                                                                         *)
(* The player record carries two instrumentation fields, hooks and calls,  *)
(* that log the Entry/Exit hooks run and the ChangeState calls made by the *)
(* operation in progress.  They are cleared when an operation starts.      *)
(* Two more, ticks and advanced, count the Update ticks run since the      *)
(* current state was entered and those of them on which the animator moved *)
(* to its next frame; both stop counting at TickCap.  A last one,          *)
(* shielded, records that STATE_SHIELD has been entered at least once.     *)
(***************************************************************************)
EXTENDS Integers, Sequences, FiniteSets, TLC

VARIABLES player, pre, lastOp, steps

vars == <<player, pre, lastOp, steps>>

(***************************************************************************)
(* Bounds of the exploration.                                              *)
(***************************************************************************)
MaxSteps == 3

ScreenWidth == 68

ScreenHeight == 68

TickCap == 10

(***************************************************************************)
(* Program constants (resource units of 0.05, lengths in half pixels).     *)
(***************************************************************************)
MAX_STAMINA == 2000

MAX_MANA == 2000

REGEN_RATE == 10

MOVE_STAMINA_COST == 1

SHIELD_STAMINA_COST == 1

ATTACK_MANA_COST == 20

PLAYER_RADIUS == 64

InitialHealth == 100

InitialSpeed == 4

InitialLives == 4

ResetLives == 4

SHIELD_RADIUS == 90

IdleAnimationCount == 7

IdleFrameCount == 8

WalkFrameCount == 9

AttackFrameCount == 6

DeadFrameCount == 6

RespawnFrameCount == 8

ShieldFrameCount == 8

(***************************************************************************)
(* States and events.                                                      *)
(***************************************************************************)
CardinalStates ==
  {"STATE_MOVING_UP", "STATE_MOVING_DOWN", "STATE_MOVING_LEFT", "STATE_MOVING_RIGHT"}

DiagonalStates ==
  {"STATE_MOVING_UP_LEFT", "STATE_MOVING_UP_RIGHT",
   "STATE_MOVING_DOWN_LEFT", "STATE_MOVING_DOWN_RIGHT"}

MovementStates == {"STATE_WALKING"} \cup CardinalStates \cup DiagonalStates

State ==
  {"STATE_IDLE", "STATE_ATTACKING", "STATE_SHIELD", "STATE_DEAD",
   "STATE_RESPAWN", "STATE_COLLISION"} \cup MovementStates

DirectionalEvents ==
  {"EVENT_MOVE_UP", "EVENT_MOVE_DOWN", "EVENT_MOVE_LEFT", "EVENT_MOVE_RIGHT",
   "EVENT_MOVE_UP_LEFT", "EVENT_MOVE_UP_RIGHT",
   "EVENT_MOVE_DOWN_LEFT", "EVENT_MOVE_DOWN_RIGHT"}

Event ==
  {"EVENT_NONE", "EVENT_MOVE", "EVENT_ATTACK", "EVENT_DEFEND", "EVENT_SHIELD",
   "EVENT_DIE", "EVENT_RESPAWN", "EVENT_COLLISION_START", "EVENT_COLLISION_END"}
  \cup DirectionalEvents

(***************************************************************************)
(* The state table built by InitPlayerFSM.  The arrays are kept as the     *)
(* source writes them (idleValidTransitions names STATE_SHIELD twice).     *)
(***************************************************************************)
\* idleValidTransitions without its last two entries.
idleValidTransitionsShort ==
  <<"STATE_WALKING", "STATE_ATTACKING", "STATE_SHIELD", "STATE_DEAD",
    "STATE_MOVING_UP", "STATE_MOVING_RIGHT", "STATE_MOVING_LEFT", "STATE_MOVING_DOWN",
    "STATE_MOVING_UP_LEFT", "STATE_MOVING_UP_RIGHT", "STATE_MOVING_DOWN_LEFT">>

idleValidTransitions ==
  <<"STATE_WALKING", "STATE_ATTACKING", "STATE_SHIELD", "STATE_DEAD",
    "STATE_MOVING_UP", "STATE_MOVING_RIGHT", "STATE_MOVING_LEFT", "STATE_MOVING_DOWN",
    "STATE_MOVING_UP_LEFT", "STATE_MOVING_UP_RIGHT", "STATE_MOVING_DOWN_LEFT",
    "STATE_MOVING_DOWN_RIGHT", "STATE_SHIELD">>

walkingValidTransitions ==
  <<"STATE_WALKING", "STATE_ATTACKING", "STATE_SHIELD", "STATE_DEAD",
    "STATE_MOVING_UP", "STATE_MOVING_RIGHT", "STATE_MOVING_LEFT", "STATE_MOVING_DOWN",
    "STATE_MOVING_UP_LEFT", "STATE_MOVING_UP_RIGHT", "STATE_MOVING_DOWN_LEFT",
    "STATE_MOVING_DOWN_RIGHT">>

movingValidTransitions == <<"STATE_IDLE", "STATE_ATTACKING", "STATE_DEAD">>

attackValidTransitions == <<"STATE_IDLE", "STATE_DEAD">>

sheildingValidTransitions == <<"STATE_IDLE", "STATE_DEAD">>

deadValidTransitions == <<"STATE_RESPAWN">>

respawnValidTransitions == <<"STATE_IDLE">>

\* StateTransitions(config, array, count): the destinations a state may move to.
StateTransitions(arr) == {arr[i] : i \in DOMAIN arr}

EMPTY_STATE_CONFIG ==
  [HandleEvent |-> "NULL", Entry |-> "NULL", Update |-> "NULL", Exit |-> "NULL",
   validTransitions |-> {}]

stateConfigs ==
  [s \in State |->
    CASE s = "STATE_IDLE" ->
           [HandleEvent |-> "PlayerIdleHandleEvent", Entry |-> "PlayerEnterIdle",
            Update |-> "PlayerUpdateIdle", Exit |-> "PlayerExitIdle",
            validTransitions |-> StateTransitions(idleValidTransitions)]
      [] s \in MovementStates ->
           [HandleEvent |-> "PlayerWalkingHandleEvent", Entry |-> "PlayerEnterWalking",
            Update |-> "PlayerUpdateWalking", Exit |-> "PlayerExitWalking",
            validTransitions |->
              IF s = "STATE_WALKING" THEN StateTransitions(walkingValidTransitions)
                                     ELSE StateTransitions(movingValidTransitions)]
      [] s = "STATE_SHIELD" ->
           [HandleEvent |-> "PlayerShieldHandleEvent", Entry |-> "PlayerEnterShield",
            Update |-> "PlayerUpdateShield", Exit |-> "PlayerExitShield",
            validTransitions |-> StateTransitions(sheildingValidTransitions)]
      [] s = "STATE_ATTACKING" ->
           [HandleEvent |-> "PlayerAttackingHandleEvent", Entry |-> "PlayerEnterAttacking",
            Update |-> "PlayerUpdateAttacking", Exit |-> "PlayerExitAttacking",
            validTransitions |-> StateTransitions(attackValidTransitions)]
      [] s = "STATE_DEAD" ->
           [HandleEvent |-> "PlayerDieHandleEvent", Entry |-> "PlayerEnterDie",
            Update |-> "PlayerUpdateDie", Exit |-> "PlayerExitDie",
            validTransitions |-> StateTransitions(deadValidTransitions)]
      [] s = "STATE_RESPAWN" ->
           [HandleEvent |-> "PlayerRespawnHandleEvent", Entry |-> "PlayerEnterRespawn",
            Update |-> "PlayerUpdateRespawn", Exit |-> "PlayerExitRespawn",
            validTransitions |-> StateTransitions(respawnValidTransitions)]
      [] OTHER -> EMPTY_STATE_CONFIG]

\* TransitionAllowed(from, to) = to is in from's allowed-destination set.
TransitionAllowed(from, to) == to \in stateConfigs[from].validTransitions

(***************************************************************************)
(* The generic animator (external collaborator).                           *)
(***************************************************************************)
\* Install a sequence: the cursor starts at its first frame.
InitGameObjectAnimation(g, seq, count) ==
  [g EXCEPT !.animation = [seq |-> seq, currentFrame |-> 0, frameCount |-> count]]

\* Advance by the frame's elapsed time: on a given tick the cursor either
\* stays or moves to the next frame, wrapping at the end of the sequence.
UpdateAnimation(g, adv) ==
  IF adv /\ g.animation.frameCount > 0
  THEN [g EXCEPT !.animation.currentFrame = (@ + 1) % g.animation.frameCount]
  ELSE g

ScreenCentre == [x |-> ScreenWidth, y |-> ScreenHeight]

(***************************************************************************)
(* Entry and Exit hooks.                                                   *)
(***************************************************************************)
\* rand() % 7 + 1 picks the idle sequence; every case installs 8 frames.
SelectRandomIdleAnimation(g, rnd) ==
  InitGameObjectAnimation(g, <<"idle", rnd>>, IdleFrameCount)

PlayerEnterIdle(g, rnd) ==
  IF g.previousState # g.currentState /\ g.currentState = "STATE_IDLE"
  THEN SelectRandomIdleAnimation(g, rnd)
  ELSE g

PlayerExitIdle(g) == g

\* The sprite-sheet row of the walk sequence chosen for a movement state.
\* WalkRow with every case falling to the default, upward-facing row.
WalkRowAllUp(s) == CASE s \in MovementStates -> 512 [] OTHER -> 512

WalkRow(s) ==
  CASE s \in {"STATE_MOVING_UP_LEFT", "STATE_MOVING_UP_RIGHT", "STATE_MOVING_UP"} -> 512
    [] s \in {"STATE_MOVING_DOWN_LEFT", "STATE_MOVING_DOWN_RIGHT", "STATE_MOVING_DOWN"} -> 640
    [] s = "STATE_MOVING_LEFT" -> 576
    [] s = "STATE_MOVING_RIGHT" -> 704
    [] OTHER -> 512

PlayerEnterWalking(g) ==
  InitGameObjectAnimation(g, <<"walk", WalkRow(g.currentState)>>, WalkFrameCount)

PlayerExitWalking(g) == g

\* The attack sequence is keyed by the last cardinal direction.
AttackSequence(d) ==
  CASE d = "STATE_MOVING_UP" -> "attackUp"
    [] d = "STATE_MOVING_DOWN" -> "attackDown"
    [] d = "STATE_MOVING_LEFT" -> "attackLeft"
    [] d = "STATE_MOVING_RIGHT" -> "attackRight"
    [] OTHER -> "attackDown"

PlayerEnterAttacking(g) ==
  InitGameObjectAnimation(g, <<"attack", AttackSequence(g.lastDirection)>>, AttackFrameCount)

PlayerExitAttacking(g) == g

PlayerEnterDie(g) == InitGameObjectAnimation(g, <<"dead", 1280>>, DeadFrameCount)

PlayerExitDie(g) == g

PlayerEnterRespawn(g) ==
  InitGameObjectAnimation(
    [g EXCEPT !.position = ScreenCentre,
              !.health = InitialHealth,
              !.stamina = MAX_STAMINA,
              !.mana = MAX_MANA],
    <<"respawn", 384>>, RespawnFrameCount)

PlayerExitRespawn(g) == g

\* PlayerEnterShield without shieldActive = true.
PlayerEnterShieldNoFlag(g) ==
  InitGameObjectAnimation([g EXCEPT !.shieldRadius = SHIELD_RADIUS],
                          <<"shield", 384>>, ShieldFrameCount)

PlayerEnterShield(g) ==
  InitGameObjectAnimation(
    [g EXCEPT !.shieldRadius = SHIELD_RADIUS, !.shieldActive = TRUE],
    <<"shield", 384>>, ShieldFrameCount)

\* PlayerExitShield leaving the flag as it was.
PlayerExitShieldKeepsFlag(g) == g

PlayerExitShield(g) == [g EXCEPT !.shieldActive = FALSE]

(***************************************************************************)
(* The state-change operation.                                             *)
(***************************************************************************)
\* exit(current), when the state table names one.
RunExit(g) ==
  LET h == stateConfigs[g.currentState].Exit
      l == [g EXCEPT !.hooks = Append(@, <<"Exit", g.currentState>>)]
  IN CASE h = "PlayerExitIdle" -> PlayerExitIdle(l)
       [] h = "PlayerExitWalking" -> PlayerExitWalking(l)
       [] h = "PlayerExitAttacking" -> PlayerExitAttacking(l)
       [] h = "PlayerExitShield" -> PlayerExitShield(l)
       [] h = "PlayerExitDie" -> PlayerExitDie(l)
       [] h = "PlayerExitRespawn" -> PlayerExitRespawn(l)
       [] OTHER -> g

\* entry(to), when the state table names one.
RunEntry(g, rnd) ==
  LET h == stateConfigs[g.currentState].Entry
      l == [g EXCEPT !.hooks = Append(@, <<"Entry", g.currentState>>)]
  IN CASE h = "PlayerEnterIdle" -> PlayerEnterIdle(l, rnd)
       [] h = "PlayerEnterWalking" -> PlayerEnterWalking(l)
       [] h = "PlayerEnterAttacking" -> PlayerEnterAttacking(l)
       [] h = "PlayerEnterShield" -> PlayerEnterShield(l)
       [] h = "PlayerEnterDie" -> PlayerEnterDie(l)
       [] h = "PlayerEnterRespawn" -> PlayerEnterRespawn(l)
       [] OTHER -> g

\* ChangeState(entity, to).  An externally triggered change (forced = FALSE,
\* the event handlers) is rejected unless the table allows it; an internally
\* forced change (forced = TRUE, the per-tick updates) bypasses the check.
\* Accepted: exit(current), previousState = current, currentState = to, entry(to).
ChangeState(g, to, forced, rnd) ==
  LET ok == forced \/ TransitionAllowed(g.currentState, to)
      c == [from |-> g.currentState, to |-> to, forced |-> forced, accepted |-> ok]
      l == [g EXCEPT !.calls = Append(@, c)]
  IN IF ~ok THEN l
     ELSE LET x == RunExit(l)
              m == [x EXCEPT !.previousState = x.currentState, !.currentState = to,
                             !.ticks = 0, !.advanced = 0,
                             !.shielded = @ \/ to = "STATE_SHIELD"]
          IN RunEntry(m, rnd)

(***************************************************************************)
(* Event handlers.  Each call of ChangeState made by a handler is an       *)
(* externally triggered one.                                               *)
(***************************************************************************)
\* The MOVING_* state a directional MOVE_* event asks for.
MovingStateOf(event) ==
  CASE event = "EVENT_MOVE_UP" -> "STATE_MOVING_UP"
    [] event = "EVENT_MOVE_DOWN" -> "STATE_MOVING_DOWN"
    [] event = "EVENT_MOVE_LEFT" -> "STATE_MOVING_LEFT"
    [] event = "EVENT_MOVE_RIGHT" -> "STATE_MOVING_RIGHT"
    [] event = "EVENT_MOVE_UP_RIGHT" -> "STATE_MOVING_UP_RIGHT"
    [] event = "EVENT_MOVE_UP_LEFT" -> "STATE_MOVING_UP_LEFT"
    [] event = "EVENT_MOVE_DOWN_RIGHT" -> "STATE_MOVING_DOWN_RIGHT"
    [] event = "EVENT_MOVE_DOWN_LEFT" -> "STATE_MOVING_DOWN_LEFT"

\* PlayerIdleHandleEvent with the break after case EVENT_MOVE missing: control
\* falls through into case EVENT_ATTACK.
PlayerIdleHandleEventFallThrough(g, event, rnd) ==
  CASE event = "EVENT_MOVE" ->
         ChangeState(ChangeState(g, "STATE_WALKING", FALSE, rnd), "STATE_ATTACKING", FALSE, rnd)
    [] event = "EVENT_ATTACK" -> ChangeState(g, "STATE_ATTACKING", FALSE, rnd)
    [] event = "EVENT_DEFEND" -> ChangeState(g, "STATE_SHIELD", FALSE, rnd)
    [] event = "EVENT_DIE" -> ChangeState(g, "STATE_DEAD", FALSE, rnd)
    [] event = "EVENT_NONE" -> [g EXCEPT !.previousState = g.currentState]
    [] event \in DirectionalEvents -> ChangeState(g, MovingStateOf(event), FALSE, rnd)
    [] event = "EVENT_SHIELD" -> ChangeState(g, "STATE_SHIELD", FALSE, rnd)
    [] OTHER -> g

PlayerIdleHandleEvent(g, event, rnd) ==
  CASE event = "EVENT_MOVE" -> ChangeState(g, "STATE_WALKING", FALSE, rnd)
    [] event = "EVENT_ATTACK" -> ChangeState(g, "STATE_ATTACKING", FALSE, rnd)
    [] event = "EVENT_DEFEND" -> ChangeState(g, "STATE_SHIELD", FALSE, rnd)
    [] event = "EVENT_DIE" -> ChangeState(g, "STATE_DEAD", FALSE, rnd)
    [] event = "EVENT_NONE" -> [g EXCEPT !.previousState = g.currentState]
    [] event \in DirectionalEvents -> ChangeState(g, MovingStateOf(event), FALSE, rnd)
    [] event = "EVENT_SHIELD" -> ChangeState(g, "STATE_SHIELD", FALSE, rnd)
    [] OTHER -> g

\* PlayerWalkingHandleEvent recording previousState itself on EVENT_NONE, as
\* the idle handler does, before it asks for STATE_IDLE.
PlayerWalkingHandleEventRecordsPrevious(g, event, rnd) ==
  CASE event = "EVENT_NONE" ->
         ChangeState([g EXCEPT !.previousState = g.currentState], "STATE_IDLE", FALSE, rnd)
    [] event = "EVENT_ATTACK" -> ChangeState(g, "STATE_ATTACKING", FALSE, rnd)
    [] event = "EVENT_DIE" -> ChangeState(g, "STATE_DEAD", FALSE, rnd)
    [] event \in DirectionalEvents -> ChangeState(g, MovingStateOf(event), FALSE, rnd)
    [] OTHER -> g

PlayerWalkingHandleEvent(g, event, rnd) ==
  CASE event = "EVENT_NONE" -> ChangeState(g, "STATE_IDLE", FALSE, rnd)
    [] event = "EVENT_ATTACK" -> ChangeState(g, "STATE_ATTACKING", FALSE, rnd)
    [] event = "EVENT_DIE" -> ChangeState(g, "STATE_DEAD", FALSE, rnd)
    [] event \in DirectionalEvents -> ChangeState(g, MovingStateOf(event), FALSE, rnd)
    [] OTHER -> g

\* PlayerAttackingHandleEvent with EVENT_MOVE grouped with EVENT_NONE.
PlayerAttackingHandleEventMoveEnds(g, event, rnd) ==
  CASE event \in {"EVENT_NONE", "EVENT_MOVE"} -> ChangeState(g, "STATE_IDLE", FALSE, rnd)
    [] event = "EVENT_DIE" -> ChangeState(g, "STATE_DEAD", FALSE, rnd)
    [] OTHER -> g

PlayerAttackingHandleEvent(g, event, rnd) ==
  CASE event = "EVENT_NONE" -> ChangeState(g, "STATE_IDLE", FALSE, rnd)
    [] event = "EVENT_DIE" -> ChangeState(g, "STATE_DEAD", FALSE, rnd)
    [] OTHER -> g

PlayerDieHandleEvent(g, event, rnd) == g

\* PlayerRespawnHandleEvent ending the respawn on EVENT_NONE.
PlayerRespawnHandleEventNoneEnds(g, event, rnd) ==
  CASE event = "EVENT_NONE" -> ChangeState(g, "STATE_IDLE", FALSE, rnd)
    [] OTHER -> g

PlayerRespawnHandleEvent(g, event, rnd) == g

\* PlayerShieldHandleEvent without its case EVENT_MOVE_DOWN_RIGHT.
PlayerShieldHandleEventMissingCase(g, event, rnd) ==
  CASE event \in DirectionalEvents \ {"EVENT_MOVE_DOWN_RIGHT"} ->
         ChangeState(g, "STATE_IDLE", FALSE, rnd)
    [] event = "EVENT_DIE" -> ChangeState(g, "STATE_DEAD", FALSE, rnd)
    [] OTHER -> g

PlayerShieldHandleEvent(g, event, rnd) ==
  CASE event \in DirectionalEvents -> ChangeState(g, "STATE_IDLE", FALSE, rnd)
    [] event = "EVENT_DIE" -> ChangeState(g, "STATE_DEAD", FALSE, rnd)
    [] OTHER -> g

\* Dispatch: the current state's handler, when the state table names one.
HandleEvent(g, event, rnd) ==
  LET h == stateConfigs[g.currentState].HandleEvent
  IN CASE h = "PlayerIdleHandleEvent" -> PlayerIdleHandleEvent(g, event, rnd)
       [] h = "PlayerWalkingHandleEvent" -> PlayerWalkingHandleEvent(g, event, rnd)
       [] h = "PlayerAttackingHandleEvent" -> PlayerAttackingHandleEvent(g, event, rnd)
       [] h = "PlayerShieldHandleEvent" -> PlayerShieldHandleEvent(g, event, rnd)
       [] h = "PlayerDieHandleEvent" -> PlayerDieHandleEvent(g, event, rnd)
       [] h = "PlayerRespawnHandleEvent" -> PlayerRespawnHandleEvent(g, event, rnd)
       [] OTHER -> g

(***************************************************************************)
(* Per-tick updates.  Each call of ChangeState made by an update is an     *)
(* internally forced one.                                                  *)
(***************************************************************************)
Min(a, b) == IF a < b THEN a ELSE b

\* PlayerUpdateIdle without the fminf clamps.
PlayerUpdateIdleNoClamp(g, adv, rnd) ==
  UpdateAnimation([g EXCEPT !.stamina = @ + REGEN_RATE, !.mana = @ + REGEN_RATE], adv)

PlayerUpdateIdle(g, adv, rnd) ==
  UpdateAnimation(
    [g EXCEPT !.stamina = Min(@ + REGEN_RATE, MAX_STAMINA),
              !.mana = Min(@ + REGEN_RATE, MAX_MANA)],
    adv)

PlayerMove(g, moveDirection) ==
  LET x == g.position.x + moveDirection.x
      y == g.position.y + moveDirection.y
  IN [g EXCEPT !.position = [x |-> x, y |-> y], !.collider = [x |-> x, y |-> y]]

\* The direction vector of a movement state (diagonals move at half speed
\* on each axis; plain WALKING moves up).
MoveDirection(s, moveSpeed) ==
  CASE s = "STATE_MOVING_UP_RIGHT" -> [x |-> moveSpeed \div 2, y |-> -(moveSpeed \div 2)]
    [] s = "STATE_MOVING_UP_LEFT" -> [x |-> -(moveSpeed \div 2), y |-> -(moveSpeed \div 2)]
    [] s = "STATE_MOVING_DOWN_RIGHT" -> [x |-> moveSpeed \div 2, y |-> moveSpeed \div 2]
    [] s = "STATE_MOVING_DOWN_LEFT" -> [x |-> -(moveSpeed \div 2), y |-> moveSpeed \div 2]
    [] s = "STATE_MOVING_UP" -> [x |-> 0, y |-> -moveSpeed]
    [] s = "STATE_MOVING_DOWN" -> [x |-> 0, y |-> moveSpeed]
    [] s = "STATE_MOVING_LEFT" -> [x |-> -moveSpeed, y |-> 0]
    [] s = "STATE_MOVING_RIGHT" -> [x |-> moveSpeed, y |-> 0]
    [] OTHER -> [x |-> 0, y |-> -moveSpeed]

\* ClampAxis without the upper boundary check.
ClampAxisLowerOnly(v, dimension) == IF v < PLAYER_RADIUS THEN PLAYER_RADIUS ELSE v

\* Screen boundary checks: the upper test follows the lower one.
ClampAxis(v, dimension) ==
  LET lo == IF v < PLAYER_RADIUS THEN PLAYER_RADIUS ELSE v
  IN IF lo > 2 * dimension - PLAYER_RADIUS THEN 2 * dimension - PLAYER_RADIUS ELSE lo

\* PlayerUpdateWalking without the return after the forced change to IDLE:
\* the tick goes on to move the player.
PlayerUpdateWalkingNoReturn(g, adv, rnd) ==
  LET g1 == [g EXCEPT !.stamina = @ - MOVE_STAMINA_COST]
      g1a == IF g1.stamina <= 0
             THEN ChangeState([g1 EXCEPT !.stamina = 0], "STATE_IDLE", TRUE, rnd)
             ELSE g1
      g2 == IF g1a.currentState \in CardinalStates
            THEN [g1a EXCEPT !.lastDirection = g1a.currentState]
            ELSE g1a
      g3 == PlayerMove(g2, MoveDirection(g2.currentState, g2.speed))
      px == ClampAxis(g3.position.x, ScreenWidth)
      py == ClampAxis(g3.position.y, ScreenHeight)
      g4 == [g3 EXCEPT !.position = [x |-> px, y |-> py],
                       !.collider = [x |-> px, y |-> py]]
      g5 == UpdateAnimation(g4, adv)
      g6 == IF g5.health <= 0
            THEN ChangeState(g5, "STATE_DEAD", TRUE, rnd)
            ELSE g5
  IN IF g6.animation.currentFrame >= g6.animation.frameCount - 1
     THEN ChangeState(g6, "STATE_IDLE", TRUE, rnd)
     ELSE g6

\* PlayerUpdateWalking testing the final frame on the walk animation as it was
\* before the health check replaced it.
PlayerUpdateWalkingStaleFrame(g, adv, rnd) ==
  LET g1 == [g EXCEPT !.stamina = @ - MOVE_STAMINA_COST]
  IN IF g1.stamina <= 0
     THEN ChangeState([g1 EXCEPT !.stamina = 0], "STATE_IDLE", TRUE, rnd)
     ELSE LET g2 == IF g1.currentState \in CardinalStates
                    THEN [g1 EXCEPT !.lastDirection = g1.currentState]
                    ELSE g1
              g3 == PlayerMove(g2, MoveDirection(g2.currentState, g2.speed))
              px == ClampAxis(g3.position.x, ScreenWidth)
              py == ClampAxis(g3.position.y, ScreenHeight)
              g4 == [g3 EXCEPT !.position = [x |-> px, y |-> py],
                               !.collider = [x |-> px, y |-> py]]
              g5 == UpdateAnimation(g4, adv)
              g6 == IF g5.health <= 0
                    THEN ChangeState(g5, "STATE_DEAD", TRUE, rnd)
                    ELSE g5
          IN IF g5.animation.currentFrame >= g5.animation.frameCount - 1
             THEN ChangeState(g6, "STATE_IDLE", TRUE, rnd)
             ELSE g6

\* PlayerUpdateWalking testing the final frame against frameCount, one
\* frame too late.
PlayerUpdateWalkingLateEnd(g, adv, rnd) ==
  LET g1 == [g EXCEPT !.stamina = @ - MOVE_STAMINA_COST]
  IN IF g1.stamina <= 0
     THEN ChangeState([g1 EXCEPT !.stamina = 0], "STATE_IDLE", TRUE, rnd)
     ELSE LET g2 == IF g1.currentState \in CardinalStates
                    THEN [g1 EXCEPT !.lastDirection = g1.currentState]
                    ELSE g1
              g3 == PlayerMove(g2, MoveDirection(g2.currentState, g2.speed))
              px == ClampAxis(g3.position.x, ScreenWidth)
              py == ClampAxis(g3.position.y, ScreenHeight)
              g4 == [g3 EXCEPT !.position = [x |-> px, y |-> py],
                               !.collider = [x |-> px, y |-> py]]
              g5 == UpdateAnimation(g4, adv)
              g6 == IF g5.health <= 0
                    THEN ChangeState(g5, "STATE_DEAD", TRUE, rnd)
                    ELSE g5
          IN IF g6.animation.currentFrame >= g6.animation.frameCount
             THEN ChangeState(g6, "STATE_IDLE", TRUE, rnd)
             ELSE g6

\* PlayerUpdateWalking recording the direction in every movement state, the
\* diagonal ones and WALKING included.
PlayerUpdateWalkingAnyDirection(g, adv, rnd) ==
  LET g1 == [g EXCEPT !.stamina = @ - MOVE_STAMINA_COST]
  IN IF g1.stamina <= 0
     THEN ChangeState([g1 EXCEPT !.stamina = 0], "STATE_IDLE", TRUE, rnd)
     ELSE LET g2 == [g1 EXCEPT !.lastDirection = g1.currentState]
              g3 == PlayerMove(g2, MoveDirection(g2.currentState, g2.speed))
              px == ClampAxis(g3.position.x, ScreenWidth)
              py == ClampAxis(g3.position.y, ScreenHeight)
              g4 == [g3 EXCEPT !.position = [x |-> px, y |-> py],
                               !.collider = [x |-> px, y |-> py]]
              g5 == UpdateAnimation(g4, adv)
              g6 == IF g5.health <= 0
                    THEN ChangeState(g5, "STATE_DEAD", TRUE, rnd)
                    ELSE g5
          IN IF g6.animation.currentFrame >= g6.animation.frameCount - 1
             THEN ChangeState(g6, "STATE_IDLE", TRUE, rnd)
             ELSE g6

PlayerUpdateWalking(g, adv, rnd) ==
  LET g1 == [g EXCEPT !.stamina = @ - MOVE_STAMINA_COST]
  IN IF g1.stamina <= 0
     THEN ChangeState([g1 EXCEPT !.stamina = 0], "STATE_IDLE", TRUE, rnd)
     ELSE LET g2 == IF g1.currentState \in CardinalStates
                    THEN [g1 EXCEPT !.lastDirection = g1.currentState]
                    ELSE g1
              g3 == PlayerMove(g2, MoveDirection(g2.currentState, g2.speed))
              px == ClampAxis(g3.position.x, ScreenWidth)
              py == ClampAxis(g3.position.y, ScreenHeight)
              g4 == [g3 EXCEPT !.position = [x |-> px, y |-> py],
                               !.collider = [x |-> px, y |-> py]]
              g5 == UpdateAnimation(g4, adv)
              g6 == IF g5.health <= 0
                    THEN ChangeState(g5, "STATE_DEAD", TRUE, rnd)
                    ELSE g5
          IN IF g6.animation.currentFrame >= g6.animation.frameCount - 1
             THEN ChangeState(g6, "STATE_IDLE", TRUE, rnd)
             ELSE g6

\* PlayerUpdateAttacking without the reset of mana to 0 on depletion.
PlayerUpdateAttackingNoClamp(g, adv, rnd) ==
  LET g1 == [g EXCEPT !.mana = @ - ATTACK_MANA_COST]
  IN IF g1.mana <= 0
     THEN ChangeState(g1, "STATE_IDLE", TRUE, rnd)
     ELSE UpdateAnimation(g1, adv)

\* PlayerUpdateAttacking testing mana < 0 where the source tests mana <= 0.
PlayerUpdateAttackingStrict(g, adv, rnd) ==
  LET g1 == [g EXCEPT !.mana = @ - ATTACK_MANA_COST]
  IN IF g1.mana < 0
     THEN ChangeState([g1 EXCEPT !.mana = 0], "STATE_IDLE", TRUE, rnd)
     ELSE UpdateAnimation(g1, adv)

PlayerUpdateAttacking(g, adv, rnd) ==
  LET g1 == [g EXCEPT !.mana = @ - ATTACK_MANA_COST]
  IN IF g1.mana <= 0
     THEN ChangeState([g1 EXCEPT !.mana = 0], "STATE_IDLE", TRUE, rnd)
     ELSE UpdateAnimation(g1, adv)

\* PlayerUpdateDie with lives-- placed before the test of the final frame.
PlayerUpdateDieEveryTick(g, adv, rnd) ==
  LET g1 == UpdateAnimation(g, adv)
      g2 == [g1 EXCEPT !.lives = @ - 1]
  IN IF g1.animation.currentFrame >= g1.animation.frameCount - 1
     THEN IF g2.lives > 0
          THEN ChangeState(g2, "STATE_RESPAWN", TRUE, rnd)
          ELSE ChangeState([g2 EXCEPT !.position = g2.spawnPoint, !.lives = ResetLives],
                           "STATE_IDLE", TRUE, rnd)
     ELSE g2

\* PlayerUpdateDie going through STATE_RESPAWN at game over as well.
PlayerUpdateDieThroughRespawn(g, adv, rnd) ==
  LET g1 == UpdateAnimation(g, adv)
  IN IF g1.animation.currentFrame >= g1.animation.frameCount - 1
     THEN LET g2 == [g1 EXCEPT !.lives = @ - 1]
          IN IF g2.lives > 0
             THEN ChangeState(g2, "STATE_RESPAWN", TRUE, rnd)
             ELSE ChangeState([g2 EXCEPT !.position = g2.spawnPoint, !.lives = ResetLives],
                              "STATE_RESPAWN", TRUE, rnd)
     ELSE g1

\* PlayerUpdateDie testing lives >= 0 where the source tests lives > 0.
PlayerUpdateDieZeroLives(g, adv, rnd) ==
  LET g1 == UpdateAnimation(g, adv)
  IN IF g1.animation.currentFrame >= g1.animation.frameCount - 1
     THEN LET g2 == [g1 EXCEPT !.lives = @ - 1]
          IN IF g2.lives >= 0
             THEN ChangeState(g2, "STATE_RESPAWN", TRUE, rnd)
             ELSE ChangeState([g2 EXCEPT !.position = g2.spawnPoint, !.lives = ResetLives],
                              "STATE_IDLE", TRUE, rnd)
     ELSE g1

\* PlayerUpdateDie without the else: the game-over branch runs after the
\* change to STATE_RESPAWN as well.
PlayerUpdateDieNoElse(g, adv, rnd) ==
  LET g1 == UpdateAnimation(g, adv)
  IN IF g1.animation.currentFrame >= g1.animation.frameCount - 1
     THEN LET g2 == [g1 EXCEPT !.lives = @ - 1]
              g3 == IF g2.lives > 0
                    THEN ChangeState(g2, "STATE_RESPAWN", TRUE, rnd)
                    ELSE g2
          IN ChangeState([g3 EXCEPT !.position = g3.spawnPoint, !.lives = ResetLives],
                         "STATE_IDLE", TRUE, rnd)
     ELSE g1

PlayerUpdateDie(g, adv, rnd) ==
  LET g1 == UpdateAnimation(g, adv)
  IN IF g1.animation.currentFrame >= g1.animation.frameCount - 1
     THEN LET g2 == [g1 EXCEPT !.lives = @ - 1]
          IN IF g2.lives > 0
             THEN ChangeState(g2, "STATE_RESPAWN", TRUE, rnd)
             ELSE ChangeState([g2 EXCEPT !.position = g2.spawnPoint, !.lives = ResetLives],
                              "STATE_IDLE", TRUE, rnd)
     ELSE g1

\* PlayerUpdateRespawn testing the final frame against frameCount, which
\* the wrapping cursor never reaches.
PlayerUpdateRespawnLoops(g, adv, rnd) ==
  LET g1 == UpdateAnimation(g, adv)
  IN IF g1.animation.currentFrame >= g1.animation.frameCount
     THEN ChangeState(g1, "STATE_IDLE", TRUE, rnd)
     ELSE g1

PlayerUpdateRespawn(g, adv, rnd) ==
  LET g1 == UpdateAnimation(g, adv)
  IN IF g1.animation.currentFrame >= g1.animation.frameCount - 1
     THEN ChangeState(g1, "STATE_IDLE", TRUE, rnd)
     ELSE g1

\* PlayerUpdateShield that holds stamina at 0 on depletion and stays.
PlayerUpdateShieldNoExit(g, adv, rnd) ==
  LET g1 == UpdateAnimation(g, adv)
      g2 == [g1 EXCEPT !.stamina = @ - SHIELD_STAMINA_COST]
  IN IF g2.stamina <= 0
     THEN [g2 EXCEPT !.stamina = 0]
     ELSE g2

\* The shield overlay drawn at the end of the tick changes no state.
PlayerUpdateShield(g, adv, rnd) ==
  LET g1 == UpdateAnimation(g, adv)
      g2 == [g1 EXCEPT !.stamina = @ - SHIELD_STAMINA_COST]
  IN IF g2.stamina <= 0
     THEN ChangeState(g2, "STATE_IDLE", TRUE, rnd)
     ELSE g2

\* One simulation tick: the current state's update, when the table names one.
UpdateGameObject(g, adv, rnd) ==
  LET h == stateConfigs[g.currentState].Update
      moved == adv /\ g.animation.frameCount > 0
      t == [g EXCEPT !.ticks = Min(@ + 1, TickCap),
                     !.advanced = IF moved THEN Min(@ + 1, TickCap) ELSE @]
  IN CASE h = "PlayerUpdateIdle" -> PlayerUpdateIdle(t, adv, rnd)
       [] h = "PlayerUpdateWalking" -> PlayerUpdateWalking(t, adv, rnd)
       [] h = "PlayerUpdateAttacking" -> PlayerUpdateAttacking(t, adv, rnd)
       [] h = "PlayerUpdateShield" -> PlayerUpdateShield(t, adv, rnd)
       [] h = "PlayerUpdateDie" -> PlayerUpdateDie(t, adv, rnd)
       [] h = "PlayerUpdateRespawn" -> PlayerUpdateRespawn(t, adv, rnd)
       [] OTHER -> t

(***************************************************************************)
(* Construction.                                                           *)
(***************************************************************************)
\* InitGameObject: the base record.  No idle sequence is installed yet.
InitGameObject(prev, dir) ==
  [currentState |-> "STATE_IDLE",
   previousState |-> prev,
   position |-> ScreenCentre,
   collider |-> ScreenCentre,
   health |-> InitialHealth,
   speed |-> InitialSpeed,
   lastDirection |-> dir,
   animation |-> [seq |-> <<"none", 0>>, currentFrame |-> 0, frameCount |-> 0]]

\* InitPlayer: the base record, the player's own fields, the state table,
\* and a direct call of PlayerEnterIdle.  malloc leaves spawnPoint and the
\* shield fields unset: spawn, active and radius stand for whatever they hold.
InitPlayer(prev, dir, spawn, active, radius, rnd) ==
  LET base == InitGameObject(prev, dir)
      p == [f \in DOMAIN base \cup {"stamina", "mana", "lives", "spawnPoint",
                                    "shieldActive", "shieldRadius", "hooks", "calls",
                                    "ticks", "advanced", "shielded"} |->
              CASE f = "stamina" -> MAX_STAMINA
                [] f = "mana" -> MAX_MANA
                [] f = "lives" -> InitialLives
                [] f = "spawnPoint" -> spawn
                [] f = "shieldActive" -> active
                [] f = "shieldRadius" -> radius
                [] f \in {"hooks", "calls"} -> <<>>
                [] f \in {"ticks", "advanced"} -> 0
                [] f = "shielded" -> FALSE
                [] OTHER -> base[f]]
  IN IF p.currentState = "STATE_IDLE" THEN PlayerEnterIdle(p, rnd) ELSE p

(***************************************************************************)
(* The operations of the interface: dispatch(entity, event), tick(entity). *)
(***************************************************************************)
\* The record as an operation finds it: the logs of the previous one cleared.
Begin(g) == [g EXCEPT !.hooks = <<>>, !.calls = <<>>]

Dispatch(event) ==
  /\ steps < MaxSteps
  /\ player' \in {HandleEvent(Begin(player), event, rnd) : rnd \in 1..IdleAnimationCount}
  /\ pre' = Begin(player)
  /\ lastOp' = [op |-> "Dispatch", event |-> event, adv |-> FALSE]
  /\ steps' = steps + 1

Update ==
  /\ steps < MaxSteps
  /\ \E adv \in BOOLEAN :
       /\ player' \in {UpdateGameObject(Begin(player), adv, rnd) : rnd \in 1..IdleAnimationCount}
       /\ lastOp' = [op |-> "Update", event |-> "EVENT_COUNT", adv |-> adv]
  /\ pre' = Begin(player)
  /\ steps' = steps + 1

(***************************************************************************)
(* Starting states.  A run starts either from a freshly constructed player *)
(* or from a player met later in a game: back in IDLE after a stay in      *)
(* another state, with resource levels that play reaches (stamina falls by *)
(* 0.05 per movement or shield tick, mana by 1.0 per attack tick, both     *)
(* rise by 0.5 per idle tick, lives fall by one per death), or in DEAD     *)
(* with the death sequence about to end.                                   *)
(***************************************************************************)
\* Pairs <<stamina, mana>>: a pool at its maximum, about to run out, or
\* about to be refilled to its maximum.
ResourceLevels ==
  {<<MAX_STAMINA, MAX_MANA>>, <<0, MAX_MANA>>, <<1, MAX_MANA>>, <<1995, 1995>>,
   <<MAX_STAMINA, 10>>, <<MAX_STAMINA, 20>>, <<MAX_STAMINA, 30>>, <<1, 10>>}

LivesLevels == {1, 2, InitialLives}

\* What InitGameObject may leave in previousState and lastDirection.
PreviousStates == {"STATE_IDLE", "STATE_COLLISION"}

LastDirections == {"STATE_IDLE", "STATE_MOVING_LEFT"}

\* What the unset spawnPoint may hold.
SpawnPoints == {ScreenCentre, [x |-> 0, y |-> 0]}

Fresh ==
  {InitPlayer(prev, dir, spawn, active, 0, 1) :
     prev \in PreviousStates, dir \in LastDirections,
     spawn \in SpawnPoints, active \in BOOLEAN}

\* Back in IDLE: a forced return from WALKING, after which the levels are
\* those of the game so far.
Resumed ==
  {Begin(ChangeState([g EXCEPT !.currentState = "STATE_WALKING",
                               !.stamina = r[1], !.mana = r[2]],
                     "STATE_IDLE", TRUE, 1)) :
     g \in {f \in Fresh : f.previousState = "STATE_IDLE" /\ ~f.shieldActive
                          /\ f.lastDirection = "STATE_MOVING_LEFT"
                          /\ f.spawnPoint = ScreenCentre},
     r \in ResourceLevels}

\* n ticks on which the animator advances.
RECURSIVE Ticks(_, _)
Ticks(g, n) == IF n = 0 THEN g ELSE Ticks(UpdateGameObject(Begin(g), TRUE, 1), n - 1)

\* In DEAD since a DIE event, one frame before the end of the death sequence.
Dying ==
  {Begin(Ticks(HandleEvent([g EXCEPT !.lives = li, !.spawnPoint = spawn],
                           "EVENT_DIE", 1),
               DeadFrameCount - 2)) :
     g \in {r \in Resumed : r.stamina = 1995},
     li \in LivesLevels, spawn \in SpawnPoints}

\* As Dying, the DIE event met on the way to the right edge: the player
\* walked one tick to the right of the screen centre before it.
DyingAway ==
  {Begin(Ticks(HandleEvent(Ticks(HandleEvent([g EXCEPT !.lives = 2],
                                             "EVENT_MOVE_RIGHT", 1), 1),
                           "EVENT_DIE", 1),
               DeadFrameCount - 2)) :
     g \in {r \in Resumed : r.stamina = 1995}}

Init ==
  /\ player \in Fresh \cup Resumed \cup Dying \cup DyingAway
  /\ pre = player
  /\ lastOp = [op |-> "Init", event |-> "EVENT_COUNT", adv |-> FALSE]
  /\ steps = 0

Next == (\E event \in Event : Dispatch(event)) \/ Update

Spec == Init /\ [][Next]_vars

(***************************************************************************)
(* Ticks alone.  A run starts right after one event was dispatched to a    *)
(* player back in IDLE (so in any state an event leads to, the stay just   *)
(* begun), and goes on by Update ticks only.                               *)
(***************************************************************************)
MaxTicks == 9

Entered ==
  {Begin(HandleEvent([g EXCEPT !.lives = li], event, 1)) :
     g \in Resumed, li \in LivesLevels, event \in Event}

InitTicks ==
  /\ player \in Entered
  /\ pre = player
  /\ lastOp = [op |-> "Init", event |-> "EVENT_COUNT", adv |-> FALSE]
  /\ steps = 0

Tick ==
  /\ steps < MaxTicks
  /\ \E adv \in BOOLEAN :
       /\ player' \in {UpdateGameObject(Begin(player), adv, rnd) : rnd \in 1..IdleAnimationCount}
       /\ lastOp' = [op |-> "Update", event |-> "EVENT_COUNT", adv |-> adv]
  /\ pre' = Begin(player)
  /\ steps' = steps + 1

NextTicks == Tick

SpecTicks == InitTicks /\ [][NextTicks]_vars

(***************************************************************************)
(* A player that gets hurt.  Nothing in player.c lowers health: it is a    *)
(* field of the entity-base record that the rest of the game writes        *)
(* between ticks.  A run starts in a movement state, some frames into its  *)
(* walk sequence, and the game may set health before any operation.        *)
(***************************************************************************)
MaxHurtSteps == 2

HealthLevels == {-10, 0, InitialHealth}

WalkFramesSeen == {0, 3, WalkFrameCount - 3, WalkFrameCount - 2}

Moving ==
  {Begin(Ticks(HandleEvent(g, event, 1), n)) :
     g \in {r \in Resumed : r.stamina = MAX_STAMINA /\ r.mana = MAX_MANA},
     event \in {"EVENT_MOVE", "EVENT_MOVE_UP", "EVENT_MOVE_DOWN_LEFT"},
     n \in WalkFramesSeen}

InitHurt ==
  /\ player \in Moving
  /\ pre = player
  /\ lastOp = [op |-> "Init", event |-> "EVENT_COUNT", adv |-> FALSE]
  /\ steps = 0

\* The game sets the player's health.
Damage(h) ==
  /\ steps < MaxHurtSteps
  /\ player.health # h
  /\ player' = [Begin(player) EXCEPT !.health = h]
  /\ pre' = Begin(player)
  /\ lastOp' = [op |-> "Damage", event |-> "EVENT_COUNT", adv |-> FALSE]
  /\ steps' = steps + 1

DispatchHurt(event) ==
  /\ steps < MaxHurtSteps
  /\ player' \in {HandleEvent(Begin(player), event, rnd) : rnd \in 1..IdleAnimationCount}
  /\ pre' = Begin(player)
  /\ lastOp' = [op |-> "Dispatch", event |-> event, adv |-> FALSE]
  /\ steps' = steps + 1

UpdateHurt ==
  /\ steps < MaxHurtSteps
  /\ \E adv \in BOOLEAN :
       /\ player' \in {UpdateGameObject(Begin(player), adv, rnd) : rnd \in 1..IdleAnimationCount}
       /\ lastOp' = [op |-> "Update", event |-> "EVENT_COUNT", adv |-> adv]
  /\ pre' = Begin(player)
  /\ steps' = steps + 1

NextHurt ==
  \/ \E event \in Event : DispatchHurt(event)
  \/ UpdateHurt
  \/ \E h \in HealthLevels : Damage(h)

SpecHurt == InitHurt /\ [][NextHurt]_vars

(***************************************************************************)
(* Death and respawn.  A run starts in DEAD, just entered by a DIE event,  *)
(* and is followed for as long as the player is in DEAD or RESPAWN: the    *)
(* game loop ticks on and events arrive in any order.  The animator        *)
(* advances by elapsed time and every tick adds the frame time, so a tick  *)
(* on which it advances keeps coming: weak fairness of the advancing tick. *)
(* steps is not counted here.                                              *)
(***************************************************************************)
\* Health at the time of death: above 0 (a DIE event alone) or used up.
DeathHealthLevels == {0, InitialHealth}

Dead ==
  {Begin(HandleEvent([g EXCEPT !.lives = li, !.spawnPoint = spawn, !.health = h],
                     "EVENT_DIE", 1)) :
     g \in {r \in Resumed : r.stamina = 1995},
     li \in {1, 2}, spawn \in SpawnPoints, h \in DeathHealthLevels}

\* The events dispatched during death and respawn: the one that names the
\* way out, the one that led in, and the one sent when no key is held.
\* (Both handlers are empty: they treat every event alike.)
DeathEvents == {"EVENT_RESPAWN", "EVENT_DIE", "EVENT_NONE"}

InitLive ==
  /\ player \in Dead
  /\ pre = player
  /\ lastOp = [op |-> "Init", event |-> "EVENT_COUNT", adv |-> FALSE]
  /\ steps = 0

TickLive(adv) ==
  /\ player.currentState \in {"STATE_DEAD", "STATE_RESPAWN"}
  /\ player' \in {UpdateGameObject(Begin(player), adv, rnd) : rnd \in 1..IdleAnimationCount}
  /\ lastOp' = [op |-> "Update", event |-> "EVENT_COUNT", adv |-> adv]
  /\ pre' = Begin(player)
  /\ steps' = steps

DispatchLive(event) ==
  /\ player.currentState \in {"STATE_DEAD", "STATE_RESPAWN"}
  /\ player' \in {HandleEvent(Begin(player), event, rnd) : rnd \in 1..IdleAnimationCount}
  /\ pre' = Begin(player)
  /\ lastOp' = [op |-> "Dispatch", event |-> event, adv |-> FALSE]
  /\ steps' = steps

NextLive ==
  \/ \E adv \in BOOLEAN : TickLive(adv)
  \/ \E event \in DeathEvents : DispatchLive(event)

SpecLive == InitLive /\ [][NextLive]_vars /\ WF_vars(TickLive(TRUE))

(***************************************************************************)
(* Holding an attack or the shield.  A run starts in ATTACKING or SHIELD,  *)
(* just entered by an event, and is followed for as long as the player is  *)
(* in one of them; no further event arrives.  The game loop calls the tick *)
(* once per frame, whether or not the animator advances on it: weak        *)
(* fairness of the tick.  steps is not counted here.                       *)
(***************************************************************************)
\* Pairs <<stamina, mana>> on entry: a pool empty, below or at one tick's
\* cost, or large enough to outlast the attack and shield sequences.
HoldLevels ==
  {<<0, 0>>, <<1, 10>>, <<2, ATTACK_MANA_COST>>, <<30, 200>>}

HoldEvents == {"EVENT_ATTACK", "EVENT_DEFEND", "EVENT_SHIELD"}

Held ==
  {Begin(HandleEvent([g EXCEPT !.stamina = r[1], !.mana = r[2]], event, 1)) :
     g \in {f \in Resumed : f.stamina = MAX_STAMINA /\ f.mana = MAX_MANA},
     r \in HoldLevels, event \in HoldEvents}

InitHold ==
  /\ player \in Held
  /\ pre = player
  /\ lastOp = [op |-> "Init", event |-> "EVENT_COUNT", adv |-> FALSE]
  /\ steps = 0

TickHold ==
  /\ player.currentState \in {"STATE_ATTACKING", "STATE_SHIELD"}
  /\ \E adv \in BOOLEAN :
       /\ player' \in {UpdateGameObject(Begin(player), adv, rnd) : rnd \in 1..IdleAnimationCount}
       /\ lastOp' = [op |-> "Update", event |-> "EVENT_COUNT", adv |-> adv]
  /\ pre' = Begin(player)
  /\ steps' = steps

NextHold == TickHold

SpecHold == InitHold /\ [][NextHold]_vars /\ WF_vars(TickHold)

(***************************************************************************)
(* Properties.  pre is the player as the last operation found it, player   *)
(* the player as it left it, lastOp the operation.                         *)
(***************************************************************************)
IsDispatch == lastOp.op = "Dispatch"

IsUpdate == lastOp.op = "Update"

\* The last operation changed no field of the player.
NothingChanged == Begin(player) = pre

EntriesRun == SelectSeq(player.hooks, LAMBDA h : h[1] = "Entry")

ExitsRun == SelectSeq(player.hooks, LAMBDA h : h[1] = "Exit")

\* The MOVING_* state that corresponds to a directional event, as section
\* 4.2 of the specification pairs them.
Corresponding ==
  [e \in DirectionalEvents |->
    CASE e = "EVENT_MOVE_UP" -> "STATE_MOVING_UP"
      [] e = "EVENT_MOVE_DOWN" -> "STATE_MOVING_DOWN"
      [] e = "EVENT_MOVE_LEFT" -> "STATE_MOVING_LEFT"
      [] e = "EVENT_MOVE_RIGHT" -> "STATE_MOVING_RIGHT"
      [] e = "EVENT_MOVE_UP_LEFT" -> "STATE_MOVING_UP_LEFT"
      [] e = "EVENT_MOVE_UP_RIGHT" -> "STATE_MOVING_UP_RIGHT"
      [] e = "EVENT_MOVE_DOWN_LEFT" -> "STATE_MOVING_DOWN_LEFT"
      [] e = "EVENT_MOVE_DOWN_RIGHT" -> "STATE_MOVING_DOWN_RIGHT"]

\* C1: an externally triggered ChangeState to a destination outside the
\* current state's allowed set is rejected: no field changes and no Exit or
\* Entry hook runs.  Stated of every call a dispatched handler makes, and of
\* ChangeState applied to every such destination in every reachable state.
C1_DisallowedIsRejected ==
  /\ IsDispatch =>
       \A i \in DOMAIN player.calls :
         LET c == player.calls[i]
         IN (~c.forced /\ ~TransitionAllowed(c.from, c.to)) =>
              /\ ~c.accepted
              /\ NothingChanged
              /\ player.hooks = <<>>
  /\ \A t \in State :
       ~TransitionAllowed(player.currentState, t) =>
         LET r == ChangeState(Begin(player), t, FALSE, 1)
         IN Begin(r) = Begin(player) /\ r.hooks = <<>>

\* C1 witness: a dispatched event whose handler asked for a destination the
\* table does not allow from a directional movement state.
C1_Witness ==
  /\ IsDispatch
  /\ pre.currentState = "STATE_MOVING_UP"
  /\ lastOp.event = "EVENT_MOVE_LEFT"
  /\ Len(player.calls) = 1
  /\ player.calls[1].to = "STATE_MOVING_LEFT"
  /\ ~player.calls[1].accepted

\* C2: one dispatched event makes at most one ChangeState call, so the
\* current state changes at most once (at most one Exit and one Entry run).
C2_AtMostOneTransition ==
  IsDispatch =>
    /\ Len(player.calls) <= 1
    /\ Len(EntriesRun) <= 1
    /\ Len(ExitsRun) <= 1
    /\ player.currentState # pre.currentState =>
         /\ Len(player.calls) = 1
         /\ player.calls[1].from = pre.currentState
         /\ player.calls[1].to = player.currentState

\* C2 witness: a dispatch that made exactly one accepted ChangeState call.
C2_Witness ==
  /\ IsDispatch
  /\ Len(player.calls) = 1
  /\ player.calls[1].accepted
  /\ player.currentState # pre.currentState
  /\ player.hooks = <<<<"Exit", pre.currentState>>, <<"Entry", player.currentState>>>>

\* The reaction table of IDLE as the claim states it.
IdleDestination(e) ==
  CASE e = "EVENT_MOVE" -> "STATE_WALKING"
    [] e \in DirectionalEvents -> Corresponding[e]
    [] e = "EVENT_ATTACK" -> "STATE_ATTACKING"
    [] e \in {"EVENT_DEFEND", "EVENT_SHIELD"} -> "STATE_SHIELD"
    [] e = "EVENT_DIE" -> "STATE_DEAD"
    [] OTHER -> "STATE_IDLE"

\* C3: in IDLE, MOVE -> WALKING, MOVE_d -> MOVING_d, ATTACK -> ATTACKING,
\* DEFEND or SHIELD -> SHIELD, DIE -> DEAD; NONE stays in IDLE and records
\* previousState = IDLE; RESPAWN and COLLISION_* change nothing; and every
\* destination asked for is accepted by the allowed-destination check.
C3_IdleTable ==
  (IsDispatch /\ pre.currentState = "STATE_IDLE") =>
    /\ player.currentState = IdleDestination(lastOp.event)
    /\ \A i \in DOMAIN player.calls : player.calls[i].accepted
    /\ lastOp.event = "EVENT_NONE" =>
         /\ player.previousState = "STATE_IDLE"
         /\ Begin(player) = [pre EXCEPT !.previousState = "STATE_IDLE"]
    /\ lastOp.event \in {"EVENT_RESPAWN", "EVENT_COLLISION_START", "EVENT_COLLISION_END"} =>
         NothingChanged

\* C3 witness: IDLE received a diagonal move and is now in its MOVING_* state.
C3_Witness ==
  /\ IsDispatch
  /\ pre.currentState = "STATE_IDLE"
  /\ lastOp.event = "EVENT_MOVE_DOWN_RIGHT"
  /\ player.currentState = "STATE_MOVING_DOWN_RIGHT"
  /\ player.previousState = "STATE_IDLE"

\* The reaction table of WALKING as the claim states it.
WalkingDestination(e) ==
  CASE e = "EVENT_NONE" -> "STATE_IDLE"
    [] e = "EVENT_ATTACK" -> "STATE_ATTACKING"
    [] e = "EVENT_DIE" -> "STATE_DEAD"
    [] e \in DirectionalEvents -> Corresponding[e]
    [] OTHER -> "STATE_WALKING"

\* C4: in WALKING, NONE -> IDLE, ATTACK -> ATTACKING, DIE -> DEAD,
\* MOVE_d -> MOVING_d, and MOVE, DEFEND, SHIELD, RESPAWN, COLLISION_* leave
\* the state unchanged.
C4_WalkingTable ==
  (IsDispatch /\ pre.currentState = "STATE_WALKING") =>
    player.currentState = WalkingDestination(lastOp.event)

\* C5: in ATTACKING, NONE -> IDLE and DIE -> DEAD; every other event leaves
\* the state, the installed animation and the resources unchanged.
C5_AttackingTable ==
  (IsDispatch /\ pre.currentState = "STATE_ATTACKING") =>
    /\ lastOp.event = "EVENT_NONE" => player.currentState = "STATE_IDLE"
    /\ lastOp.event = "EVENT_DIE" => player.currentState = "STATE_DEAD"
    /\ lastOp.event \notin {"EVENT_NONE", "EVENT_DIE"} =>
         /\ player.currentState = "STATE_ATTACKING"
         /\ player.animation = pre.animation
         /\ player.stamina = pre.stamina
         /\ player.mana = pre.mana
         /\ player.health = pre.health
         /\ player.lives = pre.lives
         /\ player.hooks = <<>>

\* C5 witness: ATTACKING received a movement event and stayed in ATTACKING.
C5_Witness ==
  /\ IsDispatch
  /\ pre.currentState = "STATE_ATTACKING"
  /\ lastOp.event = "EVENT_MOVE"
  /\ player.currentState = "STATE_ATTACKING"

\* C6: in SHIELD, each of the eight MOVE_d events -> IDLE, DIE -> DEAD, and
\* every other event leaves the state unchanged.
C6_ShieldTable ==
  (IsDispatch /\ pre.currentState = "STATE_SHIELD") =>
    /\ lastOp.event \in DirectionalEvents => player.currentState = "STATE_IDLE"
    /\ lastOp.event = "EVENT_DIE" => player.currentState = "STATE_DEAD"
    /\ lastOp.event \notin DirectionalEvents \cup {"EVENT_DIE"} =>
         player.currentState = "STATE_SHIELD"

\* C6 witness: SHIELD received MOVE_DOWN_RIGHT and is now in IDLE.
C6_Witness ==
  /\ IsDispatch
  /\ pre.currentState = "STATE_SHIELD"
  /\ lastOp.event = "EVENT_MOVE_DOWN_RIGHT"
  /\ player.currentState = "STATE_IDLE"

\* C7: in DEAD and in RESPAWN a dispatched event changes nothing (state,
\* previousState, lives, resources, position, animation) and makes no
\* ChangeState call; the two states are left only by an Update.
C7_DeadRespawnIgnoreEvents ==
  /\ (IsDispatch /\ pre.currentState \in {"STATE_DEAD", "STATE_RESPAWN"}) =>
       /\ NothingChanged
       /\ player.calls = <<>>
       /\ player.hooks = <<>>
  /\ (pre.currentState \in {"STATE_DEAD", "STATE_RESPAWN"}
      /\ player.currentState # pre.currentState) => IsUpdate

\* C7 witness: RESPAWN, entered by the Update that ended the death sequence,
\* received an event.
C7_Witness ==
  /\ IsDispatch
  /\ pre.currentState = "STATE_RESPAWN"
  /\ lastOp.event = "EVENT_NONE"
  /\ player.currentState = "STATE_RESPAWN"

\* C8: stamina stays within [0, 100] in every reachable state.
C8_StaminaInRange == 0 <= player.stamina /\ player.stamina <= MAX_STAMINA

\* C9: mana stays within [0, 100] in every reachable state.
C9_ManaInRange == 0 <= player.mana /\ player.mana <= MAX_MANA

\* C9 witness: an ATTACKING tick whose deduction took mana below 0 and
\* reset it to 0.
C9_Witness ==
  /\ IsUpdate
  /\ pre.currentState = "STATE_ATTACKING"
  /\ pre.mana > 0
  /\ pre.mana < ATTACK_MANA_COST
  /\ player.mana = 0

\* C10: an Update in a movement state whose stamina deduction reaches 0 or
\* below sets stamina to 0, leaves position and collider unchanged, and ends
\* the tick in IDLE.
C10_MovementDepletion ==
  (IsUpdate /\ pre.currentState \in MovementStates
            /\ pre.stamina - MOVE_STAMINA_COST <= 0) =>
    /\ player.stamina = 0
    /\ player.position = pre.position
    /\ player.collider = pre.collider
    /\ player.currentState = "STATE_IDLE"

\* C10 witness: plain WALKING, whose table does not list IDLE, ran out of
\* stamina on a tick and is in IDLE.
C10_Witness ==
  /\ IsUpdate
  /\ pre.currentState = "STATE_WALKING"
  /\ pre.stamina = 1
  /\ player.stamina = 0
  /\ player.currentState = "STATE_IDLE"
  /\ player.previousState = "STATE_WALKING"

\* C11: an Update in SHIELD whose stamina deduction reaches 0 or below ends
\* the tick in IDLE with the shield-active flag false and stamina equal to 0.
C11_ShieldDepletion ==
  (IsUpdate /\ pre.currentState = "STATE_SHIELD"
            /\ pre.stamina - SHIELD_STAMINA_COST <= 0) =>
    /\ player.currentState = "STATE_IDLE"
    /\ ~player.shieldActive
    /\ player.stamina = 0

\* C12: an Update in ATTACKING with mana <= 1.0 ends with mana = 0 in IDLE,
\* the attack animation not advanced (the idle sequence stands installed at
\* its first frame); with mana > 1.0 it lowers mana by exactly 1.0, stays in
\* ATTACKING and advances the attack animation.
C12_AttackingTick ==
  (IsUpdate /\ pre.currentState = "STATE_ATTACKING") =>
    IF pre.mana <= ATTACK_MANA_COST
    THEN /\ player.mana = 0
         /\ player.currentState = "STATE_IDLE"
         /\ player.animation.seq[1] = "idle"
         /\ player.animation.currentFrame = 0
    ELSE /\ player.mana = pre.mana - ATTACK_MANA_COST
         /\ player.currentState = "STATE_ATTACKING"
         /\ player.animation.seq = pre.animation.seq
         /\ player.animation.currentFrame =
              IF lastOp.adv THEN (pre.animation.currentFrame + 1) % AttackFrameCount
                            ELSE pre.animation.currentFrame

\* C12 witness: an ATTACKING tick entered with mana = 0.5 on which the
\* animator would have advanced; mana is 0 and the state IDLE.
C12_Witness ==
  /\ IsUpdate
  /\ lastOp.adv
  /\ pre.currentState = "STATE_ATTACKING"
  /\ pre.mana = 10
  /\ player.mana = 0
  /\ player.currentState = "STATE_IDLE"

\* C13: lives change only in an Update of DEAD on which the death animation
\* reaches its final frame (no dispatch and no Update of another state
\* changes them), and a stay in DEAD that ends in RESPAWN lowers lives by
\* exactly 1 to a value above 0.
C13_LivesChangeOnlyAtDeathEnd ==
  /\ player.lives # pre.lives =>
       /\ IsUpdate
       /\ pre.currentState = "STATE_DEAD"
       /\ lastOp.adv
       /\ pre.animation.currentFrame = DeadFrameCount - 2
  /\ (pre.currentState = "STATE_DEAD" /\ player.currentState = "STATE_RESPAWN") =>
       /\ player.lives = pre.lives - 1
       /\ player.lives > 0

\* C13 witness: the Update that ended a stay in DEAD in RESPAWN, one life lost.
C13_Witness ==
  /\ IsUpdate
  /\ pre.currentState = "STATE_DEAD"
  /\ player.currentState = "STATE_RESPAWN"
  /\ pre.lives = 2
  /\ player.lives = 1

\* C14: the DEAD Update that reaches the final death frame with lives = 1
\* resets lives to 4, sets position to the spawn point and ends in IDLE by
\* one forced change, RESPAWN never entered, although DEAD's table allows
\* only RESPAWN.
C14_GameOver ==
  (IsUpdate /\ pre.currentState = "STATE_DEAD" /\ pre.lives = 1
            /\ lastOp.adv /\ pre.animation.currentFrame = DeadFrameCount - 2) =>
    /\ player.lives = ResetLives
    /\ player.position = pre.spawnPoint
    /\ player.currentState = "STATE_IDLE"
    /\ player.previousState = "STATE_DEAD"
    /\ player.hooks = <<<<"Exit", "STATE_DEAD">>, <<"Entry", "STATE_IDLE">>>>
    /\ Len(player.calls) = 1
    /\ player.calls[1].forced
    /\ ~TransitionAllowed("STATE_DEAD", "STATE_IDLE")
    /\ stateConfigs["STATE_DEAD"].validTransitions = {"STATE_RESPAWN"}

\* C14 witness: game over with a spawn point other than where the player died.
C14_Witness ==
  /\ IsUpdate
  /\ pre.currentState = "STATE_DEAD"
  /\ pre.lives = 1
  /\ pre.position # pre.spawnPoint
  /\ player.currentState = "STATE_IDLE"
  /\ player.lives = ResetLives
  /\ player.position = pre.spawnPoint

\* The ordinal, within the stay in the state it ran in, of the Update tick
\* that was the last operation.
TickNumber == pre.ticks + 1

\* The animator advanced on every tick of the stay up to and including the
\* Update tick that was the last operation.
AdvancedEveryTick == pre.advanced = pre.ticks /\ lastOp.adv

\* C15 as claimed: with the animator advancing one frame per tick, lives is
\* unchanged and the state DEAD during the first N - 1 = 5 ticks in DEAD, and
\* lives falls by exactly 1 and DEAD is left on tick N = 6.
C15_DeathTakesSixTicks ==
  (IsUpdate /\ pre.currentState = "STATE_DEAD" /\ AdvancedEveryTick) =>
    /\ TickNumber < DeadFrameCount =>
         player.lives = pre.lives /\ player.currentState = "STATE_DEAD"
    /\ TickNumber = DeadFrameCount =>
         player.lives = pre.lives - 1 /\ player.currentState # "STATE_DEAD"

\* The Update tick that was the last operation ran in a movement state and
\* went on to integrate movement: its stamina deduction left stamina above 0.
MovementIntegrated ==
  /\ IsUpdate
  /\ pre.currentState \in MovementStates
  /\ pre.stamina - MOVE_STAMINA_COST > 0

\* C16: after every Update tick of WALKING or a MOVING_* state that
\* integrates movement, position.x lies in [32, screenWidth - 32] and
\* position.y in [32, screenHeight - 32] (half pixels here), and the collider
\* centre equals the clamped position.
C16_PositionClamped ==
  MovementIntegrated =>
    /\ player.position.x >= PLAYER_RADIUS
    /\ player.position.x <= 2 * ScreenWidth - PLAYER_RADIUS
    /\ player.position.y >= PLAYER_RADIUS
    /\ player.position.y <= 2 * ScreenHeight - PLAYER_RADIUS
    /\ player.collider = player.position

\* C16 witness: a tick of MOVING_RIGHT at the right edge; the step would have
\* carried the player past the edge and the position stays on it.
C16_Witness ==
  /\ MovementIntegrated
  /\ pre.currentState = "STATE_MOVING_RIGHT"
  /\ pre.position.x + pre.speed > 2 * ScreenWidth - PLAYER_RADIUS
  /\ player.position.x = 2 * ScreenWidth - PLAYER_RADIUS
  /\ player.collider = player.position

\* The walk sequence PlayerEnterWalking installs for a cardinal state.
CardinalWalkAnimation(s) ==
  [seq |-> <<"walk", CASE s = "STATE_MOVING_UP" -> 512
                       [] s = "STATE_MOVING_DOWN" -> 640
                       [] s = "STATE_MOVING_LEFT" -> 576
                       [] s = "STATE_MOVING_RIGHT" -> 704>>,
   currentFrame |-> 0,
   frameCount |-> WalkFrameCount]

CardinalEvents ==
  {"EVENT_MOVE_UP", "EVENT_MOVE_DOWN", "EVENT_MOVE_LEFT", "EVENT_MOVE_RIGHT"}

\* From IDLE a cardinal move event enters the corresponding MOVING_* state
\* and Entry installs that direction's walk sequence at its first frame.
CardinalEntry ==
  (IsDispatch /\ pre.currentState = "STATE_IDLE" /\ lastOp.event \in CardinalEvents) =>
    /\ player.currentState = Corresponding[lastOp.event]
    /\ player.currentState \in CardinalStates
    /\ player.animation = CardinalWalkAnimation(player.currentState)

\* The Update tick that was the last operation is the first one after a
\* cardinal MOVING_* state was entered from IDLE.
FirstCardinalTick ==
  /\ IsUpdate
  /\ pre.currentState \in CardinalStates
  /\ pre.previousState = "STATE_IDLE"
  /\ pre.ticks = 0

\* C17 as claimed: from IDLE, MOVE_UP (DOWN, LEFT, RIGHT) enters MOVING_UP
\* (...) with that direction's walk sequence installed, and after one Update
\* tick following the dispatch the last cardinal direction equals that state.
C17_CardinalMove ==
  /\ CardinalEntry
  /\ FirstCardinalTick => player.lastDirection = pre.currentState

\* C17 amended: as claimed, the last cardinal direction equalling the entered
\* state after the first tick provided that tick's stamina deduction leaves
\* stamina above 0; otherwise the tick leaves the last direction as it was.
C17_CardinalMoveWithStamina ==
  /\ CardinalEntry
  /\ FirstCardinalTick =>
       player.lastDirection =
         IF pre.stamina - MOVE_STAMINA_COST > 0 THEN pre.currentState
                                                ELSE pre.lastDirection

\* C17 witness: the first tick after IDLE + MOVE_UP, the up-facing sequence
\* installed, turning the last direction from LEFT to UP.
C17_Witness ==
  /\ FirstCardinalTick
  /\ pre.currentState = "STATE_MOVING_UP"
  /\ pre.animation = CardinalWalkAnimation("STATE_MOVING_UP")
  /\ pre.lastDirection = "STATE_MOVING_LEFT"
  /\ player.lastDirection = "STATE_MOVING_UP"

\* The accepted state changes of the last operation, in order.
Accepted == SelectSeq(player.calls, LAMBDA c : c.accepted)

\* The hooks an operation with these accepted changes runs: for each, Exit
\* of the state left and then Entry of the state entered.
HooksOf(acc) ==
  [i \in 1..(2 * Len(acc)) |->
     IF i % 2 = 1 THEN <<"Exit", acc[(i + 1) \div 2].from>>
                  ELSE <<"Entry", acc[i \div 2].to>>]

\* C18: for every accepted transition out of a state S, Exit(S) runs exactly
\* once, before Entry of the destination, and on no operation without an
\* accepted transition; SHIELD + MOVE_LEFT ends in IDLE with the
\* shield-active flag gone from true to false, and the flag changes only in
\* an operation that runs the Exit or the Entry of SHIELD.
C18_ExitRunsOnce ==
  /\ player.hooks = HooksOf(Accepted)
  /\ Len(Accepted) <= 1
  /\ Len(Accepted) = 1 =>
       /\ Accepted[1].from = pre.currentState
       /\ Accepted[1].to = player.currentState
  /\ player.currentState = "STATE_SHIELD" => player.shieldActive
  /\ (IsDispatch /\ pre.currentState = "STATE_SHIELD"
                 /\ lastOp.event = "EVENT_MOVE_LEFT") =>
       /\ player.currentState = "STATE_IDLE"
       /\ pre.shieldActive
       /\ ~player.shieldActive
       /\ player.hooks = <<<<"Exit", "STATE_SHIELD">>, <<"Entry", "STATE_IDLE">>>>
  /\ (pre.currentState = "STATE_IDLE" /\ pre.previousState = "STATE_SHIELD") =>
       /\ ~pre.shieldActive
       /\ <<"Exit", "STATE_SHIELD">> \notin {player.hooks[i] : i \in DOMAIN player.hooks}
  /\ player.shieldActive # pre.shieldActive =>
       \/ player.hooks[1] = <<"Exit", "STATE_SHIELD">>
       \/ player.hooks[2] = <<"Entry", "STATE_SHIELD">>

\* C18 witness: an Update tick in the IDLE state that SHIELD + MOVE_LEFT
\* led to; the flag is false and the tick ran no hook.
C18_Witness ==
  /\ IsUpdate
  /\ pre.currentState = "STATE_IDLE"
  /\ pre.previousState = "STATE_SHIELD"
  /\ ~pre.shieldActive
  /\ ~player.shieldActive
  /\ player.hooks = <<>>
  /\ steps = 3

\* C19: an Update tick of WALKING or a MOVING_* state with health <= 0 and
\* stamina not depleted on that tick ends in DEAD with the death animation
\* installed at its first frame, also when the walk animation reached its
\* final frame on that tick.
C19_DeathBeatsCompletion ==
  (MovementIntegrated /\ pre.health <= 0) =>
    /\ player.currentState = "STATE_DEAD"
    /\ player.animation = [seq |-> <<"dead", 1280>>, currentFrame |-> 0,
                           frameCount |-> DeadFrameCount]
    /\ player.hooks = <<<<"Exit", pre.currentState>>, <<"Entry", "STATE_DEAD">>>>

\* C19 witness: such a tick on which the walk animation went from its last
\* but one frame to its final frame.
C19_Witness ==
  /\ MovementIntegrated
  /\ pre.health <= 0
  /\ lastOp.adv
  /\ pre.animation.currentFrame = WalkFrameCount - 2
  /\ player.currentState = "STATE_DEAD"
  /\ player.animation.currentFrame = 0

\* While the animator has advanced on every tick of a stay in a movement
\* state, the walk animation stands at the frame that equals the number of
\* ticks, below its final frame.
WalkNotOverdue ==
  (player.currentState \in MovementStates /\ player.advanced = player.ticks) =>
    /\ player.animation.currentFrame = player.ticks
    /\ player.ticks <= WalkFrameCount - 2

\* The Update tick that was the last operation ran in a movement state, the
\* animator advanced on it and on every earlier tick of the stay, and the
\* walk animation reached its final frame on it (or would have).
WalkFinalTick ==
  /\ IsUpdate
  /\ pre.currentState \in MovementStates
  /\ AdvancedEveryTick
  /\ TickNumber = WalkFrameCount - 1

\* C20 as claimed: with only Update ticks and the animator advancing, a stay
\* in WALKING or a MOVING_* state is over, the entity in IDLE, no later than
\* the tick on which the 9-frame walk sequence reaches its final frame.
C20_MovementEndsInIdle ==
  /\ WalkNotOverdue
  /\ WalkFinalTick => player.currentState = "STATE_IDLE"

\* C20 amended: as claimed provided health > 0 on that tick; with health <= 0
\* (and stamina not depleted) that tick ends in DEAD instead, and in either
\* case the stay in the movement state is over by that tick.
C20_MovementEndsByFinalFrame ==
  /\ WalkNotOverdue
  /\ WalkFinalTick =>
       player.currentState =
         IF pre.health <= 0 /\ pre.stamina - MOVE_STAMINA_COST > 0
         THEN "STATE_DEAD" ELSE "STATE_IDLE"

\* C20 witness: the eighth tick of a stay in MOVING_UP, the animator having
\* advanced on each, health above 0: the walk animation reaches its final
\* frame and the state is IDLE.
C20_Witness ==
  /\ WalkFinalTick
  /\ pre.currentState = "STATE_MOVING_UP"
  /\ pre.health > 0
  /\ pre.animation.currentFrame = WalkFrameCount - 2
  /\ player.currentState = "STATE_IDLE"
  /\ player.previousState = "STATE_MOVING_UP"

\* C21: once in DEAD, under repeated Update ticks and whatever events are
\* dispatched meanwhile, the entity reaches IDLE; it stays neither in DEAD
\* nor in RESPAWN forever.
C21_DeadLeadsToIdle ==
  (player.currentState \in {"STATE_DEAD", "STATE_RESPAWN"}) ~>
    (player.currentState = "STATE_IDLE")

\* C21 witness: the tick that ends a stay in RESPAWN, itself entered from
\* DEAD, in IDLE, an event having been dispatched to the player meanwhile.
C21_Witness ==
  /\ IsUpdate
  /\ pre.currentState = "STATE_RESPAWN"
  /\ pre.previousState = "STATE_DEAD"
  /\ pre.ticks > RespawnFrameCount - 2
  /\ player.currentState = "STATE_IDLE"

\* The attack sequence that belongs to a last cardinal direction; when no
\* cardinal move was made yet, the downward one.
AttackFor(d) ==
  [seq |-> <<"attack", CASE d = "STATE_MOVING_UP" -> "attackUp"
                         [] d = "STATE_MOVING_LEFT" -> "attackLeft"
                         [] d = "STATE_MOVING_RIGHT" -> "attackRight"
                         [] OTHER -> "attackDown">>,
   currentFrame |-> 0,
   frameCount |-> AttackFrameCount]

\* C23: the last cardinal direction changes only in an Update tick of
\* MOVING_UP, MOVING_DOWN, MOVING_LEFT or MOVING_RIGHT that moves (stamina
\* not depleted), where it becomes that state; every other tick and every
\* dispatch leaves it unchanged, and the attack sequence installed on
\* entering ATTACKING is the one for that direction.
C23_LastDirection ==
  /\ player.lastDirection # pre.lastDirection =>
       /\ MovementIntegrated
       /\ pre.currentState \in CardinalStates
  /\ (MovementIntegrated /\ pre.currentState \in CardinalStates) =>
       player.lastDirection = pre.currentState
  /\ (player.currentState = "STATE_ATTACKING" /\ pre.currentState # "STATE_ATTACKING") =>
       player.animation = AttackFor(pre.lastDirection)

\* C23 witness: ATTACK dispatched in MOVING_UP after a tick there turned the
\* last direction from LEFT to UP; the upward attack sequence is installed.
C23_Witness ==
  /\ IsDispatch
  /\ lastOp.event = "EVENT_ATTACK"
  /\ pre.currentState = "STATE_MOVING_UP"
  /\ pre.lastDirection = "STATE_MOVING_UP"
  /\ player.currentState = "STATE_ATTACKING"
  /\ player.animation.seq = <<"attack", "attackUp">>

\* C24: an Update tick in IDLE sets stamina to min(stamina + 0.5, 100) and
\* mana to min(mana + 0.5, 100), leaves currentState, previousState,
\* position, collider, health and lives unchanged, and so never leaves IDLE.
C24_IdleTick ==
  (IsUpdate /\ pre.currentState = "STATE_IDLE") =>
    /\ player.stamina = IF pre.stamina + REGEN_RATE < MAX_STAMINA
                        THEN pre.stamina + REGEN_RATE ELSE MAX_STAMINA
    /\ player.mana = IF pre.mana + REGEN_RATE < MAX_MANA
                     THEN pre.mana + REGEN_RATE ELSE MAX_MANA
    /\ player.currentState = "STATE_IDLE"
    /\ player.previousState = pre.previousState
    /\ player.position = pre.position
    /\ player.collider = pre.collider
    /\ player.health = pre.health
    /\ player.lives = pre.lives
    /\ player.calls = <<>>

\* C24 witness: an IDLE tick that refills stamina and mana from 99.75, where
\* adding 0.5 would pass the maximum.
C24_Witness ==
  /\ IsUpdate
  /\ pre.currentState = "STATE_IDLE"
  /\ pre.stamina = MAX_STAMINA - 5
  /\ pre.mana = MAX_MANA - 5
  /\ player.stamina = MAX_STAMINA
  /\ player.mana = MAX_MANA

\* C25: every destination an event handler requests is inside the allowed
\* set of the state the handler is registered for, so no dispatched event
\* is dropped by the validator.
C25_RequestsAllowed ==
  IsDispatch =>
    \A i \in DOMAIN player.calls :
      /\ TransitionAllowed(player.calls[i].from, player.calls[i].to)
      /\ player.calls[i].accepted

\* C26: from the first entry into SHIELD onward, at the end of every
\* dispatch and every Update tick the shield-active flag is true exactly
\* when currentState = SHIELD.
C26_FlagFollowsShield ==
  player.shielded => (player.shieldActive <=> player.currentState = "STATE_SHIELD")

\* C26 witness: the Update tick in SHIELD that used up stamina; the player
\* is in IDLE and the flag false.
C26_Witness ==
  /\ IsUpdate
  /\ pre.currentState = "STATE_SHIELD"
  /\ pre.shieldActive
  /\ player.shielded
  /\ player.currentState = "STATE_IDLE"
  /\ ~player.shieldActive

\* C27: at the end of every Update tick and every transition, in every
\* state, the collider's centre equals the position, also after the
\* position resets on entering RESPAWN and at game over.
C27_ColliderFollows == player.collider = player.position

\* C28: at the end of every dispatch and every Update tick lives is between
\* 1 and 4 inclusive.
C28_LivesInRange == player.lives \in 1..InitialLives

\* C28 witness: the tick that took the last life; lives, at 1 before it,
\* is back at 4 after it, 0 never seen.
C28_Witness ==
  /\ IsUpdate
  /\ pre.currentState = "STATE_DEAD"
  /\ pre.lives = 1
  /\ player.lives = InitialLives
  /\ Len(player.calls) = 1

C30_RestoredAfterDeath ==
  (IsUpdate /\ pre.currentState \in {"STATE_DEAD", "STATE_RESPAWN"}
            /\ player.currentState = "STATE_IDLE") =>
    /\ player.health = InitialHealth
    /\ player.stamina = MAX_STAMINA
    /\ player.mana = MAX_MANA
    /\ player.health > 0

\* A tick leaves ATTACKING or SHIELD only by depletion of the state's
\* pool, and then for IDLE; the end of the attack sequence ends nothing.
LeftByDepletion ==
  (IsUpdate /\ pre.currentState \in {"STATE_ATTACKING", "STATE_SHIELD"}) =>
    IF pre.currentState = "STATE_ATTACKING"
    THEN player.currentState =
           IF pre.mana - ATTACK_MANA_COST <= 0 THEN "STATE_IDLE" ELSE "STATE_ATTACKING"
    ELSE player.currentState =
           IF pre.stamina - SHIELD_STAMINA_COST <= 0 THEN "STATE_IDLE" ELSE "STATE_SHIELD"

\* C31: from ATTACKING or SHIELD, with Update ticks only and no events, the
\* entity reaches IDLE, through depletion of mana or stamina and through
\* nothing else (ATTACKING has no animation-completion exit).
C31_HoldEnds ==
  /\ []LeftByDepletion
  /\ (player.currentState \in {"STATE_ATTACKING", "STATE_SHIELD"}) ~>
       (player.currentState = "STATE_IDLE")

\* C31 witness: the tick that ends an attack held past the end of its
\* sequence, the animator having advanced on every tick; mana is used up
\* and the state IDLE.
C31_Witness ==
  /\ IsUpdate
  /\ pre.currentState = "STATE_ATTACKING"
  /\ AdvancedEveryTick
  /\ pre.ticks > AttackFrameCount
  /\ player.mana = 0
  /\ player.currentState = "STATE_IDLE"
  /\ player.previousState = "STATE_ATTACKING"

====
